---- MODULE Spec2Model ----
(***************************************************************************)
(* A model of the QuoridorX rules engine: Position and Wall (types/game),  *)
(* Board (core/Board.ts) and Game with its undo/redo history.              *)
(*                                                                         *)
(* The program state is the Game object: its Board (pawns, walls), the     *)
(* remaining-wall map, the game state (turn, status) and the two snapshot  *)
(* stacks.  Every public operation is one action that models the whole     *)
(* call, the rejected outcomes included.  Two observation variables       *)
(* record the call just made (last) and the state it was made in (pre).    *)
(***************************************************************************)
EXTENDS Integers, Sequences, FiniteSets, TLC

\* ---------------------------------------------------------------- bounds
BoardSize == 3
WallsPerPlayer == 1
MaxMoves == 3
SetupMoves == 2
MaxSize == 4
MaxWalls == 2

\* ------------------------------------------------------------- constants
IN_PROGRESS == "IN_PROGRESS"
PLAYER_1_WON == "PLAYER_1_WON"
PLAYER_2_WON == "PLAYER_2_WON"

PlayerIds == {1, 2}

\* ---------------------------------------------------------------- Position
\* A Position carries the size of the board it was created for.  The cells of
\* the board of the game are the positions of size BoardSize; on one board
\* equals(), which compares row and col, is equality of the records.
Coords == 0 .. (BoardSize - 1)
Positions == [row : Coords, col : Coords, boardSize : {BoardSize}]
Pos(r, c) == [row |-> r, col |-> c, boardSize |-> BoardSize]

\* how a call ends: its return value, or the error it throws
Returned(value) == [result |-> "ok", value |-> value]
Threw(error) == [result |-> error]

\* variant: the upper bound is let through
create_inclusive(row, col, boardSize) ==
    IF boardSize <= 0 THEN Threw("InvalidBoardSize")
    ELSE IF row < 0 \/ row > boardSize \/ col < 0 \/ col > boardSize
    THEN Threw("InvalidPosition")
    ELSE Returned([row |-> row, col |-> col, boardSize |-> boardSize])

\* Position.create(row, col, boardSize)
create(row, col, boardSize) ==
    IF boardSize <= 0 THEN Threw("InvalidBoardSize")
    ELSE IF row < 0 \/ row >= boardSize \/ col < 0 \/ col >= boardSize
    THEN Threw("InvalidPosition")
    ELSE Returned([row |-> row, col |-> col, boardSize |-> boardSize])

\* Position.equals: row and column, whatever board the positions were made for
equals(p, q) == p.row = q.row /\ p.col = q.col

hasRight(p) == p.col < p.boardSize - 1
hasLeft(p) == p.col > 0
hasUp(p) == p.row > 0
\* variant: the bottom row is thought to have a row below
hasDown_inclusive(p) == p.row <= p.boardSize - 1

hasDown(p) == p.row < p.boardSize - 1

\* the value of right()/left()/up()/down() when has<Dir>() holds
right(p) == [p EXCEPT !.col = @ + 1]
left(p) == [p EXCEPT !.col = @ - 1]
up(p) == [p EXCEPT !.row = @ - 1]
down(p) == [p EXCEPT !.row = @ + 1]

Directions == <<"right", "left", "up", "down">>

\* has<Dir>() and <dir>() selected by name; <dir>() throws when has<Dir>() is false
hasNeighbour(d, p) ==
    CASE d = "right" -> hasRight(p)
      [] d = "left" -> hasLeft(p)
      [] d = "up" -> hasUp(p)
      [] d = "down" -> hasDown(p)

neighbour(d, p) ==
    CASE d = "right" -> right(p)
      [] d = "left" -> left(p)
      [] d = "up" -> up(p)
      [] d = "down" -> down(p)

\* right()/left()/up()/down() as called: the neighbour, or the edge error
step(d, p) ==
    IF hasNeighbour(d, p) THEN Returned(neighbour(d, p)) ELSE Threw("EdgeError")

\* -------------------------------------------------------------------- Wall
Walls == [position : Positions, isHorizontal : BOOLEAN]
Wall(r, c, h) == [position |-> Pos(r, c), isHorizontal |-> h]

\* Wall.occupies(): the anchor and the cell to its right (horizontal) or
\* below it (vertical).  Only called on walls that passed the bound check.
occupies(w) ==
    <<w.position, IF w.isHorizontal THEN right(w.position) ELSE down(w.position)>>

\* variant: a vertical wall is extended to the right
wallOccupies_right(w) ==
    LET second == step("right", w.position)
    IN  IF second.result = "ok"
        THEN Returned(<<w.position, second.value>>)
        ELSE Threw("EdgeError")

\* Wall.occupies() as called: the two cells, or the edge error of right()/down()
wallOccupies(w) ==
    LET second == step(IF w.isHorizontal THEN "right" ELSE "down", w.position)
    IN  IF second.result = "ok"
        THEN Returned(<<w.position, second.value>>)
        ELSE Threw("EdgeError")

\* Wall.isBlockingRow(row): one of the occupied cells lies on that row
isBlockingRow(w, row) ==
    \E i \in 1..2 : occupies(w)[i].row = row

\* ------------------------------------------------------------------- Board
\* variant: only the first cells are compared
arePositionsMutuallyExclusive_anchors(posArray1, posArray2) ==
    ~equals(posArray1[1], posArray2[1])

arePositionsMutuallyExclusive(posArray1, posArray2) ==
    ~ \E i \in DOMAIN posArray1 : \E j \in DOMAIN posArray2 :
          equals(posArray1[i], posArray2[j])

\* variant: the crossing check also looks at the new wall's second cell
isValidWallPlacement_symmetric(ws, wall) ==
    IF wall.isHorizontal /\ wall.position.col >= BoardSize - 1 THEN FALSE
    ELSE IF ~wall.isHorizontal /\ wall.position.row >= BoardSize - 1 THEN FALSE
    ELSE IF \E i \in DOMAIN ws :
               /\ ws[i].isHorizontal = wall.isHorizontal
               /\ ~arePositionsMutuallyExclusive(occupies(ws[i]), occupies(wall))
         THEN FALSE
    ELSE ~ \E i \in DOMAIN ws :
               /\ ws[i].isHorizontal # wall.isHorizontal
               /\ \/ equals(wall.position, occupies(ws[i])[2])
                  \/ equals(occupies(wall)[2], ws[i].position)

\* variant: the crossing check is left out
isValidWallPlacement_noCrossing(ws, wall) ==
    IF wall.isHorizontal /\ wall.position.col >= BoardSize - 1 THEN FALSE
    ELSE IF ~wall.isHorizontal /\ wall.position.row >= BoardSize - 1 THEN FALSE
    ELSE ~ \E i \in DOMAIN ws :
               /\ ws[i].isHorizontal = wall.isHorizontal
               /\ ~arePositionsMutuallyExclusive(occupies(ws[i]), occupies(wall))

\* variant: the bound check of horizontal walls is off by one
isValidWallPlacement_edge(ws, wall) ==
    IF wall.isHorizontal /\ wall.position.col > BoardSize - 1 THEN FALSE
    ELSE IF ~wall.isHorizontal /\ wall.position.row >= BoardSize - 1 THEN FALSE
    ELSE IF \E i \in DOMAIN ws :
               /\ ws[i].isHorizontal = wall.isHorizontal
               /\ ~arePositionsMutuallyExclusive(occupies(ws[i]), occupies(wall))
         THEN FALSE
    ELSE ~ \E i \in DOMAIN ws :
               /\ ws[i].isHorizontal # wall.isHorizontal
               /\ equals(wall.position, occupies(ws[i])[2])

\* isValidWallPlacement ends by an edge error instead of a verdict: the bound
\* checks let the wall through and wall.occupies() throws
isValidWallPlacementThrows(wall) ==
    /\ ~(wall.isHorizontal /\ wall.position.col >= BoardSize - 1)
    /\ ~(~wall.isHorizontal /\ wall.position.row >= BoardSize - 1)
    /\ wallOccupies(wall).result # "ok"

isValidWallPlacement(ws, wall) ==
    IF wall.isHorizontal /\ wall.position.col >= BoardSize - 1 THEN FALSE
    ELSE IF ~wall.isHorizontal /\ wall.position.row >= BoardSize - 1 THEN FALSE
    ELSE IF \E i \in DOMAIN ws :
               /\ ws[i].isHorizontal = wall.isHorizontal
               /\ ~arePositionsMutuallyExclusive(occupies(ws[i]), occupies(wall))
         THEN FALSE
    ELSE ~ \E i \in DOMAIN ws :
               /\ ws[i].isHorizontal # wall.isHorizontal
               /\ equals(wall.position, occupies(ws[i])[2])

Min(a, b) == IF a < b THEN a ELSE b

\* variant: a horizontal wall blocks only in its anchor column
isWallBetween_anchor(ws, pos1, pos2) ==
    IF pos1.col = pos2.col
    THEN LET minRow == Min(pos1.row, pos2.row)
         IN  \E i \in DOMAIN ws :
                 /\ ws[i].isHorizontal
                 /\ ws[i].position.row = minRow
                 /\ ws[i].position.col = pos1.col
    ELSE IF pos1.row = pos2.row
    THEN LET rightPos == IF pos1.col < pos2.col THEN pos2 ELSE pos1
             leftPos == IF pos1.col < pos2.col THEN pos1 ELSE pos2
         IN  \E i \in DOMAIN ws :
                 /\ ~ws[i].isHorizontal
                 /\ isBlockingRow(ws[i], pos1.row)
                 /\ \E k \in 1..2 :
                        /\ occupies(ws[i])[k].col > leftPos.col
                        /\ occupies(ws[i])[k].col = rightPos.col
    ELSE FALSE

isWallBetween(ws, pos1, pos2) ==
    IF pos1.col = pos2.col
    THEN LET minRow == Min(pos1.row, pos2.row)
         IN  \E i \in DOMAIN ws :
                 /\ ws[i].isHorizontal
                 /\ ws[i].position.row = minRow
                 /\ \E k \in 1..2 : occupies(ws[i])[k].col = pos1.col
    ELSE IF pos1.row = pos2.row
    THEN LET rightPos == IF pos1.col < pos2.col THEN pos2 ELSE pos1
             leftPos == IF pos1.col < pos2.col THEN pos1 ELSE pos2
         IN  \E i \in DOMAIN ws :
                 /\ ~ws[i].isHorizontal
                 /\ isBlockingRow(ws[i], pos1.row)
                 /\ \E k \in 1..2 :
                        /\ occupies(ws[i])[k].col > leftPos.col
                        /\ occupies(ws[i])[k].col = rightPos.col
    ELSE FALSE

isOccupied(pw, position) ==
    \E q \in DOMAIN pw : equals(pw[q], position)

\* the "target already occupied by another pawn" loop of isValidMove/isValidJump
occupiedByOther(pw, playerId, targetPosition) ==
    \E q \in DOMAIN pw : q # playerId /\ equals(pw[q], targetPosition)

\* variant: a step is taken whether or not a wall is in the way
isValidMove_throughWalls(pw, ws, playerId, targetPosition) ==
    IF playerId \notin DOMAIN pw THEN FALSE
    ELSE IF occupiedByOther(pw, playerId, targetPosition) THEN FALSE
    ELSE LET currentPosition == pw[playerId]
         IN  \E i \in DOMAIN Directions :
                 /\ hasNeighbour(Directions[i], currentPosition)
                 /\ equals(neighbour(Directions[i], currentPosition), targetPosition)

isValidMove(pw, ws, playerId, targetPosition) ==
    IF playerId \notin DOMAIN pw THEN FALSE
    ELSE IF occupiedByOther(pw, playerId, targetPosition) THEN FALSE
    ELSE LET currentPosition == pw[playerId]
         IN  \E i \in DOMAIN Directions :
                 /\ hasNeighbour(Directions[i], currentPosition)
                 /\ equals(neighbour(Directions[i], currentPosition), targetPosition)
                 /\ ~isWallBetween(ws, currentPosition, targetPosition)

\* variant: the boundary behind the jumped pawn is not looked at
jumpCheck_oneWall(pw, ws, currentPosition, targetPosition, d) ==
    IF ~hasNeighbour(d, currentPosition) THEN "throw"
    ELSE LET over == neighbour(d, currentPosition)
         IN  IF ~isOccupied(pw, over) THEN "next"
             ELSE IF ~hasNeighbour(d, over) THEN "throw"
             ELSE IF /\ equals(neighbour(d, over), targetPosition)
                     /\ ~isWallBetween(ws, currentPosition, over)
                  THEN "true"
                  ELSE "next"

\* One "if" of isValidJump's try block: "true" (return true), "next" (fall
\* through to the next direction) or "throw" (a Position method threw, the
\* catch returns false and the remaining directions are never examined).
jumpCheck(pw, ws, currentPosition, targetPosition, d) ==
    IF ~hasNeighbour(d, currentPosition) THEN "throw"
    ELSE LET over == neighbour(d, currentPosition)
         IN  IF ~isOccupied(pw, over) THEN "next"
             ELSE IF ~hasNeighbour(d, over) THEN "throw"
             ELSE IF /\ equals(neighbour(d, over), targetPosition)
                     /\ ~isWallBetween(ws, currentPosition, over)
                     /\ ~isWallBetween(ws, over, targetPosition)
                  THEN "true"
                  ELSE "next"

RECURSIVE jumpFrom(_, _, _, _, _)
jumpFrom(pw, ws, currentPosition, targetPosition, i) ==
    IF i > Len(Directions) THEN FALSE
    ELSE LET r == jumpCheck(pw, ws, currentPosition, targetPosition, Directions[i])
         IN  IF r = "true" THEN TRUE
             ELSE IF r = "throw" THEN FALSE
             ELSE jumpFrom(pw, ws, currentPosition, targetPosition, i + 1)

isValidJump(pw, ws, playerId, targetPosition) ==
    IF playerId \notin DOMAIN pw THEN FALSE
    ELSE IF occupiedByOther(pw, playerId, targetPosition) THEN FALSE
    ELSE jumpFrom(pw, ws, pw[playerId], targetPosition, 1)

\* variant: the wall is put at the front of the list
boardPlaceWall_front(ws, wall) ==
    IF ~isValidWallPlacement(ws, wall)
    THEN [ok |-> FALSE, walls |-> ws]
    ELSE [ok |-> TRUE, walls |-> <<wall>> \o ws]

\* Board.placeWall: the wall list after the call, or "throw"
boardPlaceWall(ws, wall) ==
    IF ~isValidWallPlacement(ws, wall)
    THEN [ok |-> FALSE, walls |-> ws]
    ELSE [ok |-> TRUE, walls |-> Append(ws, wall)]

\* variant: nothing is dropped
pop_keeps(s) == s

\* Array.pop(): drops the last element, does nothing on an empty array
pop(s) == IF s = <<>> THEN s ELSE SubSeq(s, 1, Len(s) - 1)

\* variant: the rollback forgets to take the wall back
removeLastWall_keeps(ws) == ws

removeLastWall(ws) == pop(ws)

\* Board.movePawn: "ok", "NoPawn" or "InvalidMove", with the pawn map after
boardMovePawn(pw, ws, playerId, targetPosition) ==
    IF playerId \notin DOMAIN pw
    THEN [result |-> "NoPawn", pawns |-> pw]
    ELSE IF \/ isValidMove(pw, ws, playerId, targetPosition)
            \/ isValidJump(pw, ws, playerId, targetPosition)
    THEN [result |-> "ok", pawns |-> [pw EXCEPT ![playerId] = targetPosition]]
    ELSE [result |-> "InvalidMove", pawns |-> pw]

\* -------------------------------------------------------------------- Game
VARIABLES pawns, walls, remainingWalls, gameState, history, redoStack,
          last, pre, made, mover, preRedo, subject, call, visualizer

vars == <<pawns, walls, remainingWalls, gameState, history, redoStack,
          last, pre, made, mover, preRedo, subject, call, visualizer>>

\* Game.saveCurrentState(): a copy of the board, the game state and the budgets
\* variant: the snapshot is taken without the walls
saveCurrentState_noWalls ==
    [board |-> [pawns |-> pawns, walls |-> <<>>],
     gameState |-> gameState,
     remainingWalls |-> remainingWalls]

saveCurrentState ==
    [board |-> [pawns |-> pawns, walls |-> walls],
     gameState |-> gameState,
     remainingWalls |-> remainingWalls]

\* variant: either outer row is a goal row for everyone
isGoalPosition_anyEdge(playerId, position) ==
    position.row = BoardSize - 1 \/ position.row = 0

isGoalPosition(playerId, position) ==
    IF playerId = 1 THEN position.row = BoardSize - 1 ELSE position.row = 0

\* one "try { if (!isWallBetween(p, p.dir())) moves.push(p.dir()) } catch {}"
validMoveIn(ws, position, d) ==
    IF ~hasNeighbour(d, position) THEN <<>>
    ELSE IF ~isWallBetween(ws, position, neighbour(d, position))
         THEN <<neighbour(d, position)>>
         ELSE <<>>

\* variant: the search never steps to the left
getValidMoves_noLeft(ws, position) ==
    validMoveIn(ws, position, "right")
        \o validMoveIn(ws, position, "up") \o validMoveIn(ws, position, "down")

getValidMoves(ws, position) ==
    validMoveIn(ws, position, "right") \o validMoveIn(ws, position, "left")
        \o validMoveIn(ws, position, "up") \o validMoveIn(ws, position, "down")

\* the while loop of hasPathToGoal: queue is a FIFO, visited a set of cells
RECURSIVE bfs(_, _, _, _)
bfs(ws, playerId, queue, visited) ==
    IF queue = <<>> THEN FALSE
    ELSE LET current == Head(queue)
             rest == Tail(queue)
         IN  IF current \in visited THEN bfs(ws, playerId, rest, visited)
             ELSE IF isGoalPosition(playerId, current) THEN TRUE
             ELSE LET seen == visited \cup {current}
                      fresh == SelectSeq(getValidMoves(ws, current),
                                         LAMBDA m : m \notin seen)
                  IN  bfs(ws, playerId, rest \o fresh, seen)

\* variant: the cells the other pawns stand on are never entered
hasPathToGoal_aroundPawns(pw, ws, playerId) ==
    IF playerId \notin DOMAIN pw THEN FALSE
    ELSE bfs(ws, playerId, <<pw[playerId]>>,
             {pw[other] : other \in DOMAIN pw \ {playerId}})

hasPathToGoal(pw, ws, playerId) ==
    IF playerId \notin DOMAIN pw THEN FALSE
    ELSE bfs(ws, playerId, <<pw[playerId]>>, {})

\* variant: the loop answers as soon as one player has a path
allPlayersHavePathToGoal_some(pw, ws, rw) ==
    \E playerId \in DOMAIN rw : hasPathToGoal(pw, ws, playerId)

allPlayersHavePathToGoal(pw, ws, rw) ==
    \A playerId \in DOMAIN rw : hasPathToGoal(pw, ws, playerId)

\* variant: the turn is not handed over
switchTurns_stays(gs) == gs

switchTurns(gs) ==
    [gs EXCEPT !.currentTurn = IF gs.currentTurn = 1 THEN 2 ELSE 1]

\* variant: every win is recorded as player 1's
wonStatus_first(playerId) == PLAYER_1_WON

wonStatus(playerId) == IF playerId = 1 THEN PLAYER_1_WON ELSE PLAYER_2_WON

\* the wall-by-wall replay of restoreState: Board.placeWall validates each
\* wall again and throws on the first one it rejects
RECURSIVE replayWalls(_, _, _)
replayWalls(acc, ws, i) ==
    IF i > Len(ws) THEN [ok |-> TRUE, walls |-> acc]
    ELSE LET r == boardPlaceWall(acc, ws[i])
         IN  IF r.ok THEN replayWalls(r.walls, ws, i + 1)
             ELSE [ok |-> FALSE, walls |-> acc]

\* variant: the budgets are not put back
restoreState_keepsBudgets(state) ==
    LET r == replayWalls(<<>>, state.board.walls, 1)
    IN  [ok |-> r.ok, pawns |-> state.board.pawns, walls |-> r.walls,
         gameState |-> IF r.ok THEN state.gameState ELSE gameState,
         remainingWalls |-> remainingWalls]

\* variant: the walls are not replayed onto the new board
restoreState_skipsWalls(state) ==
    [ok |-> TRUE, pawns |-> state.board.pawns, walls |-> <<>>,
     gameState |-> state.gameState, remainingWalls |-> state.remainingWalls]

\* variant: turn and status are not put back
restoreState_keepsGameState(state) ==
    LET r == replayWalls(<<>>, state.board.walls, 1)
    IN  [ok |-> r.ok, pawns |-> state.board.pawns, walls |-> r.walls,
         gameState |-> gameState,
         remainingWalls |-> IF r.ok THEN state.remainingWalls ELSE remainingWalls]

\* Game.restoreState(state): the board first, then the game state, then the
\* budgets; a throw from the replay leaves the last two as they were
restoreState(state) ==
    LET r == replayWalls(<<>>, state.board.walls, 1)
    IN  [ok |-> r.ok,
         pawns |-> state.board.pawns,
         walls |-> r.walls,
         gameState |-> IF r.ok THEN state.gameState ELSE gameState,
         remainingWalls |-> IF r.ok THEN state.remainingWalls ELSE remainingWalls]

\* ------------------------------------------------------------- validations
\* each is TRUE when the corresponding validate* method returns without throwing
validatePlayer(rw, id) == id \in DOMAIN rw

\* variant: the status is not looked at
validateGameInProgress_always(gs) == TRUE

validateGameInProgress(gs) == gs.status = IN_PROGRESS

\* variant: the turn is not looked at
validatePlayerTurn_always(gs, playerId) == TRUE

validatePlayerTurn(gs, playerId) == playerId = gs.currentTurn

\* ------------------------------------------------------------- operations
\* Each public method of Game is a function of the current state: how the call
\* ends ("ok" or the error thrown) and the value of every field afterwards.
Outcome(result, pw, ws, rw, gs, h, r) ==
    [result |-> result, pawns |-> pw, walls |-> ws, remainingWalls |-> rw,
     gameState |-> gs, history |-> h, redoStack |-> r]

\* variant: the snapshot is pushed before the throw
Thrown_pushes(result) ==
    Outcome(result, pawns, walls, remainingWalls, gameState,
            Append(history, saveCurrentState), redoStack)

\* variant: the redo stack is cleared before the throw
Thrown_clearsRedo(result) ==
    Outcome(result, pawns, walls, remainingWalls, gameState, history, <<>>)

\* a call that throws before it has changed anything
Thrown(result) ==
    Outcome(result, pawns, walls, remainingWalls, gameState, history, redoStack)

\* variant: the redo stack is left as it is
clearedRedoStack_keeps == redoStack

\* this.redoStack = []
clearedRedoStack == <<>>

\* variant: only a negative budget is refused
noWallsRemaining_negative(remaining) == remaining < 0

\* the budget test of placeWall: remainingWalls <= 0
noWallsRemaining(remaining) == remaining <= 0

\* variant: the board is asked about the wall before the budget is looked at
placeWall_boardFirst(playerId, wall) ==
    IF ~validatePlayer(remainingWalls, playerId) THEN Thrown("NotInGame")
    ELSE IF ~validateGameInProgress(gameState) THEN Thrown("GameEnded")
    ELSE IF ~validatePlayerTurn(gameState, playerId) THEN Thrown("WrongTurn")
    ELSE
        LET pushed == Append(history, saveCurrentState)
            remaining == remainingWalls[playerId]
            placed == boardPlaceWall(walls, wall)
        IN  IF ~placed.ok
            THEN Outcome("InvalidWallPlacement", pawns, walls, remainingWalls,
                         gameState, pop(pushed), clearedRedoStack)
            ELSE IF noWallsRemaining(remaining)
            THEN Outcome("NoWallsRemaining", pawns, walls, remainingWalls,
                         gameState, pop(pushed), clearedRedoStack)
            ELSE IF ~allPlayersHavePathToGoal(pawns, placed.walls, remainingWalls)
            THEN Outcome("PathBlocked", pawns, removeLastWall(placed.walls),
                         remainingWalls, gameState, pop(pop(pushed)),
                         clearedRedoStack)
            ELSE Outcome("ok", pawns, placed.walls,
                         [remainingWalls EXCEPT ![playerId] = remaining - 1],
                         switchTurns(gameState), pushed, clearedRedoStack)

placeWall(playerId, wall) ==
    IF ~validatePlayer(remainingWalls, playerId) THEN Thrown("NotInGame")
    ELSE IF ~validateGameInProgress(gameState) THEN Thrown("GameEnded")
    ELSE IF ~validatePlayerTurn(gameState, playerId) THEN Thrown("WrongTurn")
    ELSE
        \* history.push(saveCurrentState()); redoStack = []
        LET pushed == Append(history, saveCurrentState)
            remaining == remainingWalls[playerId]
            placed == boardPlaceWall(walls, wall)
        IN  IF noWallsRemaining(remaining)
            THEN Outcome("NoWallsRemaining", pawns, walls, remainingWalls,
                         gameState, pop(pushed), clearedRedoStack)
            ELSE IF ~placed.ok
            THEN \* thrown by Board.placeWall; the catch block pops once
                 Outcome("InvalidWallPlacement", pawns, walls, remainingWalls,
                         gameState, pop(pushed), clearedRedoStack)
            ELSE IF ~allPlayersHavePathToGoal(pawns, placed.walls, remainingWalls)
            THEN \* pop before the throw, and once more in the catch block
                 Outcome("PathBlocked", pawns, removeLastWall(placed.walls),
                         remainingWalls, gameState, pop(pop(pushed)),
                         clearedRedoStack)
            ELSE Outcome("ok", pawns, placed.walls,
                         [remainingWalls EXCEPT ![playerId] = remaining - 1],
                         switchTurns(gameState), pushed, clearedRedoStack)

movePawn(playerId, targetPosition) ==
    IF ~validateGameInProgress(gameState) THEN Thrown("GameEnded")
    ELSE IF ~validatePlayerTurn(gameState, playerId) THEN Thrown("WrongTurn")
    ELSE
        LET pushed == Append(history, saveCurrentState)
            moved == boardMovePawn(pawns, walls, playerId, targetPosition)
        IN  IF moved.result # "ok"
            THEN \* the catch block pops the snapshot; the redo stack is untouched
                 Outcome(moved.result, pawns, walls, remainingWalls, gameState,
                         pop(pushed), redoStack)
            ELSE Outcome("ok", moved.pawns, walls, remainingWalls,
                         IF isGoalPosition(playerId, targetPosition)
                         THEN [gameState EXCEPT !.status = wonStatus(playerId)]
                         ELSE switchTurns(gameState),
                         pushed, clearedRedoStack)

\* variant: a third player is still let in
addPlayer_three(playerId) ==
    IF Cardinality(DOMAIN remainingWalls) >= 3 THEN Thrown("MaxPlayers")
    ELSE Outcome("ok", pawns, walls,
                 [q \in DOMAIN remainingWalls \cup {playerId} |->
                      IF q = playerId THEN WallsPerPlayer ELSE remainingWalls[q]],
                 gameState, history, redoStack)

\* Game.addPlayer: remainingWalls.set(playerId, wallsPerPlayer) unless the map
\* already has two entries
addPlayer(playerId) ==
    IF Cardinality(DOMAIN remainingWalls) >= 2 THEN Thrown("MaxPlayers")
    ELSE Outcome("ok", pawns, walls,
                 [q \in DOMAIN remainingWalls \cup {playerId} |->
                      IF q = playerId THEN WallsPerPlayer ELSE remainingWalls[q]],
                 gameState, history, redoStack)

undo ==
    IF history = <<>> THEN Thrown("NoMovesToUndo")
    ELSE LET restored == restoreState(history[Len(history)])
         IN  Outcome(IF restored.ok THEN "ok" ELSE "InvalidWallPlacement",
                     restored.pawns, restored.walls, restored.remainingWalls,
                     restored.gameState, pop(history),
                     Append(redoStack, saveCurrentState))

redo ==
    IF redoStack = <<>> THEN Thrown("NoMovesToRedo")
    ELSE LET restored == restoreState(redoStack[Len(redoStack)])
         IN  Outcome(IF restored.ok THEN "ok" ELSE "InvalidWallPlacement",
                     restored.pawns, restored.walls, restored.remainingWalls,
                     restored.gameState, Append(history, saveCurrentState),
                     pop(redoStack))

\* ------------------------------------------------------ observation of calls
\* the call just made: which operation, for which player, and how it ended
Call(op, playerId, result) ==
    [op |-> op, player |-> playerId, result |-> result]

\* what a caller can see through getBoard/getGameState/getRemainingWalls at
\* the moment of a call
Observed ==
    [board |-> [pawns |-> pawns, walls |-> walls],
     gameState |-> gameState,
     remainingWalls |-> remainingWalls]

\* a call made on a Position, a Wall or the Board directly: the method, its
\* arguments and how it ended
DirectCall(op, args, returned) ==
    [op |-> op, args |-> args, returned |-> returned]

NoPosition == [row |-> -1, col |-> -1, boardSize |-> 0]

NoCall == DirectCall("none", <<>>, Threw("none"))

\* no BoardVisualizer has been constructed
NoVisualizer ==
    [owned |-> TRUE,
     held |-> [pawns |-> <<>>, walls |-> <<>>],
     printed |-> [pawns |-> <<>>, walls |-> <<>>]]

\* ------------------------------------------------------------------ actions
\* one call of a public method: every field takes the value the method leaves
Effect(op, playerId, o) ==
    /\ pawns' = o.pawns
    /\ walls' = o.walls
    /\ remainingWalls' = o.remainingWalls
    /\ gameState' = o.gameState
    /\ history' = o.history
    /\ redoStack' = o.redoStack
    /\ last' = Call(op, playerId, o.result)
    /\ pre' = Observed
    /\ preRedo' = Len(redoStack)
    /\ UNCHANGED <<subject, call>>
    /\ mover' = IF o.result # "ok" THEN mover
                ELSE IF op \in {"placeWall", "movePawn"} THEN playerId
                ELSE 0

\* a call made on the Game directly, with no command shell around it
Apply(op, playerId, o) ==
    /\ Effect(op, playerId, o)
    /\ UNCHANGED visualizer

PlaceWall(playerId, wall) ==
    \E o \in {placeWall(playerId, wall)} :
        /\ o.result = "ok" => made < MaxMoves
        /\ made' = IF o.result = "ok" THEN made + 1 ELSE made
        /\ Apply("placeWall", playerId, o)

MovePawn(playerId, targetPosition) ==
    \E o \in {movePawn(playerId, targetPosition)} :
        /\ o.result = "ok" => made < MaxMoves
        /\ made' = IF o.result = "ok" THEN made + 1 ELSE made
        /\ Apply("movePawn", playerId, o)

Undo ==
    \E o \in {undo} :
        /\ UNCHANGED made
        /\ Apply("undo", 0, o)

Redo ==
    \E o \in {redo} :
        /\ UNCHANGED made
        /\ Apply("redo", 0, o)

\* ---------------------------------------------------------- initial states
\* A game as the tests set it up: pawns seeded through Board.withPawns on the
\* middle column of the top and bottom rows, then addPlayer for each of them.
\* The second setup is a game with a single player seeded and added.
Mid == BoardSize \div 2

StartPawns(ids) ==
    [p \in ids |-> IF p = 1 THEN Pos(0, Mid) ELSE Pos(BoardSize - 1, Mid)]

Setups == {{1, 2}, {1}}

Init ==
    \E ids \in Setups :
        /\ pawns = StartPawns(ids)
        /\ walls = <<>>
        /\ remainingWalls = [p \in ids |-> WallsPerPlayer]
        /\ gameState = [currentTurn |-> 1, status |-> IN_PROGRESS]
        /\ history = <<>>
        /\ redoStack = <<>>
        /\ made = 0
        /\ mover = 0
        /\ preRedo = 0
        /\ subject = NoPosition
        /\ call = NoCall
        /\ visualizer = NoVisualizer
        /\ last = Call("init", 0, "ok")
        /\ pre = [board |-> [pawns |-> StartPawns(ids), walls |-> <<>>],
                  gameState |-> [currentTurn |-> 1, status |-> IN_PROGRESS],
                  remainingWalls |-> [p \in ids |-> WallsPerPlayer]]

Next ==
    \/ \E playerId \in PlayerIds, wall \in Walls : PlaceWall(playerId, wall)
    \/ \E playerId \in PlayerIds, targetPosition \in Positions :
           MovePawn(playerId, targetPosition)
    \/ Undo
    \/ Redo

Spec == Init /\ [][Next]_vars

\* ------------------------------------------------------- moves and walls only
\* The game played forward: placeWall and movePawn calls, accepted or refused,
\* and no undo or redo.
MovesNext ==
    \/ \E playerId \in PlayerIds, wall \in Walls : PlaceWall(playerId, wall)
    \/ \E playerId \in PlayerIds, targetPosition \in Positions :
           MovePawn(playerId, targetPosition)

MovesSpec == Init /\ [][MovesNext]_vars

\* ------------------------------------------------- positions of another board
\* Position.create(row, col, boardSize) makes positions for any board size, and
\* Game.movePawn takes whatever Position it is given: here the game is played
\* with targets made for its own board and for a board of MaxSize.
ForeignPositions ==
    [row : 0 .. MaxSize - 1, col : 0 .. MaxSize - 1, boardSize : {MaxSize}]

MixedNext ==
    \E playerId \in PlayerIds, targetPosition \in Positions \cup ForeignPositions :
        MovePawn(playerId, targetPosition)

MixedSpec == Init /\ [][MixedNext]_vars

\* ---------------------------------------------------------- command shell
\* QuoridorCLI: its constructor hands game.getBoard() to a BoardVisualizer,
\* which keeps that Board object for good; every command is run by
\* executeGameCommand, which prints boardVisualizer.visualize() when the
\* command has not thrown. held is what the visualizer's Board object holds,
\* owned whether that object is still the one the Game owns, printed the last
\* grid printed.
ShellMoves == 2

BoardOf(o) == [pawns |-> o.pawns, walls |-> o.walls]

\* replaced: the command went through Game.restoreState, which makes the Game
\* own a new Board object; every other change is made in the Game's Board
Visualized(o, replaced) ==
    LET held == IF visualizer.owned /\ ~replaced THEN BoardOf(o)
                ELSE visualizer.held
    IN  [owned |-> visualizer.owned /\ ~replaced,
         held |-> held,
         printed |-> IF o.result = "ok" THEN held ELSE visualizer.printed]

executeGameCommand(op, o, replaced, counts) ==
    /\ (counts /\ o.result = "ok") => made < ShellMoves
    /\ made' = IF counts /\ o.result = "ok" THEN made + 1 ELSE made
    /\ Effect(op, gameState.currentTurn, o)
    /\ visualizer' = Visualized(o, replaced)

MoveCommand(targetPosition) ==
    \E o \in {movePawn(gameState.currentTurn, targetPosition)} :
        executeGameCommand("movePawn", o, FALSE, TRUE)

\* currentPosition.<dir>() throws at the edge: "Cannot move in that direction"
relativeMove(d) ==
    IF gameState.currentTurn \notin DOMAIN pawns THEN Thrown("NoPawn")
    ELSE IF step(d, pawns[gameState.currentTurn]).result # "ok"
    THEN Thrown("OutOfBounds")
    ELSE movePawn(gameState.currentTurn,
                  step(d, pawns[gameState.currentTurn]).value)

RelativeMoveCommand(d) ==
    \E o \in {relativeMove(d)} :
        executeGameCommand("movePawn", o, FALSE, TRUE)

WallCommand(wall) ==
    \E o \in {placeWall(gameState.currentTurn, wall)} :
        executeGameCommand("placeWall", o, FALSE, TRUE)

UndoCommand ==
    \E o \in {undo} : executeGameCommand("undo", o, history # <<>>, FALSE)

RedoCommand ==
    \E o \in {redo} : executeGameCommand("redo", o, redoStack # <<>>, FALSE)

StatusCommand ==
    \E o \in {Thrown("ok")} : executeGameCommand("status", o, FALSE, FALSE)

\* index.ts: the default pawns, both players added, then the shell
ShellInit ==
    /\ pawns = StartPawns(PlayerIds)
    /\ walls = <<>>
    /\ remainingWalls = [p \in PlayerIds |-> WallsPerPlayer]
    /\ gameState = [currentTurn |-> 1, status |-> IN_PROGRESS]
    /\ history = <<>>
    /\ redoStack = <<>>
    /\ made = 0
    /\ mover = 0
    /\ preRedo = 0
    /\ subject = NoPosition
    /\ call = NoCall
    /\ last = Call("init", 0, "ok")
    /\ pre = [board |-> [pawns |-> StartPawns(PlayerIds), walls |-> <<>>],
              gameState |-> [currentTurn |-> 1, status |-> IN_PROGRESS],
              remainingWalls |-> [p \in PlayerIds |-> WallsPerPlayer]]
    /\ visualizer = [owned |-> TRUE,
                     held |-> [pawns |-> StartPawns(PlayerIds), walls |-> <<>>],
                     printed |-> [pawns |-> StartPawns(PlayerIds),
                                  walls |-> <<>>]]

ShellNext ==
    \/ \E targetPosition \in Positions : MoveCommand(targetPosition)
    \/ \E i \in DOMAIN Directions : RelativeMoveCommand(Directions[i])
    \/ \E wall \in Walls : WallCommand(wall)
    \/ UndoCommand
    \/ RedoCommand
    \/ StatusCommand

ShellSpec == ShellInit /\ [][ShellNext]_vars

\* ------------------------------------------------------------ game set-up
\* The game from its constructor on: a seeded board, no player added yet.
\* addPlayer may be called at any time, with any id; the game itself is
\* followed for SetupMoves successful moves.
SetupIds == {1, 2, 3}

AddPlayer(playerId) ==
    \E o \in {addPlayer(playerId)} :
        /\ UNCHANGED made
        /\ Apply("addPlayer", playerId, o)

SetupInit ==
    \E ids \in Setups :
        /\ pawns = StartPawns(ids)
        /\ walls = <<>>
        /\ remainingWalls = <<>>
        /\ gameState = [currentTurn |-> 1, status |-> IN_PROGRESS]
        /\ history = <<>>
        /\ redoStack = <<>>
        /\ made = 0
        /\ mover = 0
        /\ preRedo = 0
        /\ subject = NoPosition
        /\ call = NoCall
        /\ visualizer = NoVisualizer
        /\ last = Call("init", 0, "ok")
        /\ pre = [board |-> [pawns |-> StartPawns(ids), walls |-> <<>>],
                  gameState |-> [currentTurn |-> 1, status |-> IN_PROGRESS],
                  remainingWalls |-> <<>>]

SetupNext ==
    \/ \E playerId \in SetupIds : AddPlayer(playerId)
    \/ made < SetupMoves /\ Next

SetupSpec == SetupInit /\ [][SetupNext]_vars

\* ------------------------------------------------- positions and walls alone
\* Position and Wall objects used directly: a position is made by
\* Position.create from any integers, then asked for its neighbours and for
\* the cells of a wall anchored at it.  No game is running.
gameVars == <<pawns, walls, remainingWalls, gameState, history, redoStack,
              last, pre, made, mover, preRedo, visualizer>>

NoGame ==
    /\ pawns = <<>>
    /\ walls = <<>>
    /\ remainingWalls = <<>>
    /\ gameState = [currentTurn |-> 1, status |-> IN_PROGRESS]
    /\ history = <<>>
    /\ redoStack = <<>>
    /\ made = 0
    /\ mover = 0
    /\ preRedo = 0
    /\ visualizer = NoVisualizer
    /\ last = Call("init", 0, "ok")
    /\ pre = [board |-> [pawns |-> <<>>, walls |-> <<>>],
              gameState |-> [currentTurn |-> 1, status |-> IN_PROGRESS],
              remainingWalls |-> <<>>]

CoordInputs == -1 .. MaxSize

SizeInputs == 0 .. MaxSize

Create(row, col, boardSize) ==
    \E o \in {create(row, col, boardSize)} :
        /\ call' = DirectCall("create", <<row, col, boardSize>>, o)
        /\ subject' = IF o.result = "ok" THEN o.value ELSE subject
        /\ UNCHANGED gameVars

Has(d) ==
    /\ subject # NoPosition
    /\ call' = DirectCall("has", <<d, subject>>,
                          Returned(hasNeighbour(d, subject)))
    /\ UNCHANGED <<subject, gameVars>>

Step(d) ==
    /\ subject # NoPosition
    /\ \E o \in {step(d, subject)} :
           /\ call' = DirectCall("step", <<d, subject>>, o)
           /\ subject' = IF o.result = "ok" THEN o.value ELSE subject
    /\ UNCHANGED gameVars

Occupies(isHorizontal) ==
    /\ subject # NoPosition
    /\ \E w \in {[position |-> subject, isHorizontal |-> isHorizontal]} :
           call' = DirectCall("occupies", <<w>>, wallOccupies(w))
    /\ UNCHANGED <<subject, gameVars>>

PositionInit ==
    /\ NoGame
    /\ \E row, col \in CoordInputs, boardSize \in SizeInputs :
           \E o \in {create(row, col, boardSize)} :
               /\ call = DirectCall("create", <<row, col, boardSize>>, o)
               /\ subject = IF o.result = "ok" THEN o.value ELSE NoPosition

PositionNext ==
    \/ \E row, col \in CoordInputs, boardSize \in SizeInputs :
           Create(row, col, boardSize)
    \/ \E i \in DOMAIN Directions : Has(Directions[i])
    \/ \E i \in DOMAIN Directions : Step(Directions[i])
    \/ \E isHorizontal \in BOOLEAN : Occupies(isHorizontal)

PositionSpec == PositionInit /\ [][PositionNext]_vars

\* ---------------------------------------------------------- the board alone
\* A Board used directly, as its tests do: seeded with any pawns on distinct
\* cells, then placeWall, movePawn and removeLastWall in any order, with at
\* most MaxWalls walls on it.
BoardSetups ==
    {pw \in [PlayerIds -> Positions] : pw[1] # pw[2]}
        \cup [{1} -> Positions]

BoardPlaceWall(wall) ==
    \E o \in {boardPlaceWall(walls, wall)} :
        /\ o.ok => Len(walls) < MaxWalls
        /\ walls' = o.walls
        /\ call' = DirectCall("placeWall", <<wall>>,
                              IF isValidWallPlacementThrows(wall)
                              THEN Threw("EdgeError")
                              ELSE IF o.ok THEN Returned(TRUE)
                              ELSE Threw("InvalidWallPlacement"))
        /\ pre' = Observed
        /\ UNCHANGED <<pawns, remainingWalls, gameState, history, redoStack,
                       last, made, mover, preRedo, subject, visualizer>>

BoardMovePawn(playerId, targetPosition) ==
    \E o \in {boardMovePawn(pawns, walls, playerId, targetPosition)} :
        /\ pawns' = o.pawns
        /\ call' = DirectCall("movePawn", <<playerId, targetPosition>>,
                              IF o.result = "ok" THEN Returned(TRUE)
                              ELSE Threw(o.result))
        /\ pre' = Observed
        /\ UNCHANGED <<walls, remainingWalls, gameState, history, redoStack,
                       last, made, mover, preRedo, subject, visualizer>>

RemoveLastWall ==
    /\ walls' = removeLastWall(walls)
    /\ call' = DirectCall("removeLastWall", <<>>, Returned(TRUE))
    /\ pre' = Observed
    /\ UNCHANGED <<pawns, remainingWalls, gameState, history, redoStack,
                   last, made, mover, preRedo, subject, visualizer>>

BoardInit ==
    \E pw \in BoardSetups :
        /\ pawns = pw
        /\ walls = <<>>
        /\ remainingWalls = <<>>
        /\ gameState = [currentTurn |-> 1, status |-> IN_PROGRESS]
        /\ history = <<>>
        /\ redoStack = <<>>
        /\ made = 0
        /\ mover = 0
        /\ preRedo = 0
        /\ last = Call("init", 0, "ok")
        /\ pre = [board |-> [pawns |-> pw, walls |-> <<>>],
                  gameState |-> [currentTurn |-> 1, status |-> IN_PROGRESS],
                  remainingWalls |-> <<>>]
        /\ subject = NoPosition
        /\ call = NoCall
        /\ visualizer = NoVisualizer

BoardNext ==
    \/ \E wall \in Walls : BoardPlaceWall(wall)
    \/ \E playerId \in PlayerIds, targetPosition \in Positions :
           BoardMovePawn(playerId, targetPosition)
    \/ RemoveLastWall

BoardSpec == BoardInit /\ [][BoardNext]_vars

\* ------------------------------------------------------- the walls of a board
\* A Board with the default pawns, asked about its walls: placeWall and
\* removeLastWall change the wall list, isWallBetween queries it.
IsWallBetween(pos1, pos2) ==
    /\ call' = DirectCall("isWallBetween", <<pos1, pos2>>,
                          Returned(isWallBetween(walls, pos1, pos2)))
    /\ pre' = Observed
    /\ UNCHANGED <<pawns, walls, remainingWalls, gameState, history, redoStack,
                   last, made, mover, preRedo, subject, visualizer>>

WallInit == BoardInit /\ pawns = StartPawns(PlayerIds)

WallNext ==
    \/ \E wall \in Walls : BoardPlaceWall(wall)
    \/ RemoveLastWall
    \/ \E pos1 \in Positions, pos2 \in Positions : IsWallBetween(pos1, pos2)

WallSpec == WallInit /\ [][WallNext]_vars

\* ================================================================== claims
\* Vocabulary of the claims, stated from the rules and not from the code.

Registered == DOMAIN remainingWalls

Moves == {"movePawn", "placeWall"}

WonStatuses == {PLAYER_1_WON, PLAYER_2_WON}

Other(p) == IF p = 1 THEN 2 ELSE 1

GoalRow(p) == IF p = 1 THEN BoardSize - 1 ELSE 0

WinOf(p) == IF p = 1 THEN PLAYER_1_WON ELSE PLAYER_2_WON

Orthogonal(p, q) ==
    \/ p.row = q.row /\ (p.col = q.col + 1 \/ q.col = p.col + 1)
    \/ p.col = q.col /\ (p.row = q.row + 1 \/ q.row = p.row + 1)

\* A horizontal wall anchored at (r,c) closes the boundary between rows r and
\* r+1 in columns c and c+1; a vertical wall anchored at (r,c) closes the
\* boundary between columns c-1 and c in rows r and r+1.
Closes(w, p, q) ==
    IF w.isHorizontal
    THEN /\ p.col = q.col
         /\ p.col \in {w.position.col, w.position.col + 1}
         /\ {p.row, q.row} = {w.position.row, w.position.row + 1}
    ELSE /\ p.row = q.row
         /\ p.row \in {w.position.row, w.position.row + 1}
         /\ {p.col, q.col} = {w.position.col - 1, w.position.col}

Open(ws, p, q) ==
    Orthogonal(p, q) /\ ~ \E i \in DOMAIN ws : Closes(ws[i], p, q)

Around(p) ==
    {q \in {Pos(p.row + 1, p.col), Pos(p.row - 1, p.col),
            Pos(p.row, p.col + 1), Pos(p.row, p.col - 1)} :
         q.row \in Coords /\ q.col \in Coords}

\* the cells joined to the cells of seen by wall-free orthogonal steps, where
\* frontier holds the cells of seen whose neighbours are still to be looked at
RECURSIVE Reach(_, _, _)
Reach(ws, seen, frontier) ==
    IF frontier = {} THEN seen
    ELSE LET more == {q \in UNION {Around(p) : p \in frontier} :
                         /\ q \notin seen
                         /\ \E p \in frontier : Open(ws, p, q)}
         IN  Reach(ws, seen \cup more, more)

HasFreePath(pw, ws, p) ==
    /\ p \in DOMAIN pw
    /\ \E q \in Reach(ws, {pw[p]}, {pw[p]}) : q.row = GoalRow(p)

\* C1: in every reachable state every registered player has a wall-free
\* orthogonal path from its pawn to its goal row over the walls on the board.
C1_Connectivity ==
    \A p \in Registered : HasFreePath(pawns, walls, p)

\* C1 witness: a wall was refused for blocking a path while walls stand on the board
C1_Witness ==
    /\ last.op = "placeWall" /\ last.result = "PathBlocked"
    /\ Len(walls) >= 1

\* C2: after a rejected placeWall or movePawn the pawns, the ordered wall list,
\* the turn, the status and the remaining-wall counts are what they were
\* before the call.
C2_RejectedLeavesGame ==
    (last.op \in Moves /\ last.result # "ok") => Observed = pre

\* C2 witness: a rejection that came after the board was touched (the wall was
\* placed and taken back)
C2_Witness ==
    /\ last.op = "placeWall" /\ last.result = "PathBlocked"
    /\ Len(walls) >= 1 /\ Observed = pre

\* C3: a placeWall that passes the player, status, turn and budget checks and
\* whose wall Board.placeWall accepts fails with PathBlocked exactly when, with
\* the new wall added, some registered player has no wall-free path to its goal
\* row; the wall list is then as before the call, and otherwise the call
\* succeeds with the wall appended last.
C3_PathBlockedExactly ==
    \A p \in Registered, w \in Walls :
        ( /\ gameState.status = IN_PROGRESS
          /\ gameState.currentTurn = p
          /\ remainingWalls[p] > 0
          /\ isValidWallPlacement(walls, w) )
        => \A o \in {placeWall(p, w)} :
           \A severed \in {\E q \in Registered :
                                ~HasFreePath(pawns, Append(walls, w), q)} :
               /\ (o.result = "PathBlocked") <=> severed
               /\ severed => o.walls = walls
               /\ ~severed => (o.result = "ok" /\ o.walls = Append(walls, w))

\* C3 witness: a wall refused with PathBlocked on a board that already has a
\* wall, the wall list being what it was before the call
C3_Witness ==
    /\ last.op = "placeWall" /\ last.result = "PathBlocked"
    /\ walls = pre.board.walls /\ Len(walls) = 1
    /\ remainingWalls[last.player] > 0

\* what a caller sees after a call that ended as o
Seen(o) ==
    [board |-> [pawns |-> o.pawns, walls |-> o.walls],
     gameState |-> o.gameState,
     remainingWalls |-> o.remainingWalls]

\* C4: right after a successful movePawn or placeWall made in state S, undo()
\* succeeds and restores S's pawns, wall list, turn, status and budgets.
C4_UndoInvertsMove ==
    (last.op \in Moves /\ last.result = "ok")
        => \A o \in {undo} : o.result = "ok" /\ Seen(o) = pre

\* C4 witness: a wall has just been placed on a board that already had one
\* (undo has budgets, walls and the turn to put back)
C4_Witness ==
    /\ last.op = "placeWall" /\ last.result = "ok"
    /\ Len(walls) = 2 /\ history # <<>>

\* C5: right after an undo() made in state T, redo() succeeds and restores T's
\* pawns, wall list, turn, status and budgets.
C5_RedoInvertsUndo ==
    (last.op = "undo" /\ last.result = "ok")
        => \A o \in {redo} : o.result = "ok" /\ Seen(o) = pre

\* C5 witness: an undo has just taken back a state with a wall on the board
C5_Witness ==
    /\ last.op = "undo" /\ last.result = "ok"
    /\ Len(pre.board.walls) >= 1 /\ Observed # pre

\* C6: after a successful movePawn onto the mover's goal row the status is the
\* mover's win and the turn is still the mover's; after a successful movePawn
\* to any other row the status is IN_PROGRESS.
C6_WinOnGoalRow ==
    (last.op = "movePawn" /\ last.result = "ok")
        => LET p == last.player
           IN  IF pawns[p].row = GoalRow(p)
               THEN /\ gameState.status = WinOf(p)
                    /\ gameState.currentTurn = pre.gameState.currentTurn
                    /\ gameState.currentTurn = p
               ELSE gameState.status = IN_PROGRESS

\* C6 witness: player 2 has just reached row 0 by a jump over player 1
C6_Witness ==
    /\ last.op = "movePawn" /\ last.result = "ok" /\ last.player = 2
    /\ pawns[2].row = 0 /\ pre.board.pawns[2].row = 2
    /\ gameState.status = PLAYER_2_WON

\* C7: in a won state every movePawn and every placeWall by a registered
\* player fails with GameEnded and changes nothing, and redo() leaves the
\* status as it is (only undo() takes the game out of the won status).
C7_WonRejectsMoves ==
    gameState.status \in WonStatuses
        => /\ \A p \in Registered, t \in Positions :
                  \A o \in {movePawn(p, t)} :
                      /\ o.result = "GameEnded" /\ Seen(o) = Observed
                      /\ o.history = history /\ o.redoStack = redoStack
           /\ \A p \in Registered, w \in Walls :
                  \A o \in {placeWall(p, w)} :
                      /\ o.result = "GameEnded" /\ Seen(o) = Observed
                      /\ o.history = history /\ o.redoStack = redoStack
           /\ \A o \in {redo} : o.gameState.status = gameState.status

\* C7 witness: a call was refused with GameEnded in a won state
C7_Witness ==
    /\ gameState.status \in WonStatuses
    /\ last.op \in Moves /\ last.result = "GameEnded"

\* C8: undo() right after a winning move gives IN_PROGRESS with the pawns and
\* the turn of before the move; in the state that undo leaves, the winner's
\* move to the winning square is accepted again and redo() restores the win.
C8_UndoRedoCrossWin ==
    /\ (last.op = "movePawn" /\ last.result = "ok"
            /\ gameState.status \in WonStatuses)
           => \A o \in {undo} :
                  /\ o.result = "ok"
                  /\ o.gameState.status = IN_PROGRESS
                  /\ o.pawns = pre.board.pawns
                  /\ o.gameState.currentTurn = pre.gameState.currentTurn
    /\ (last.op = "undo" /\ last.result = "ok"
            /\ pre.gameState.status \in WonStatuses)
           => /\ gameState.status = IN_PROGRESS
              /\ \A p \in {pre.gameState.currentTurn} :
                     /\ pre.gameState.status = WinOf(p)
                     /\ movePawn(p, pre.board.pawns[p]).result = "ok"
              /\ \A o \in {redo} :
                     /\ o.result = "ok"
                     /\ o.gameState.status = pre.gameState.status
                     /\ o.pawns = pre.board.pawns

\* C8 witness: a win has just been undone
C8_Witness ==
    /\ last.op = "undo" /\ last.result = "ok"
    /\ pre.gameState.status \in WonStatuses
    /\ gameState.status = IN_PROGRESS
    /\ redoStack # <<>>

\* C9: the game starts with player 1 to move; a successful placeWall or
\* movePawn is made by the turn holder and, unless it wins, hands the turn to
\* the other player; a rejected one leaves the turn; and with no undo or redo
\* in between, a successful move is never by the player of the previous one.
C9_TurnOrder ==
    /\ gameState.currentTurn = 1
    /\ [][last'.op \in Moves =>
              IF last'.result = "ok"
              THEN /\ last'.player = gameState.currentTurn
                   /\ gameState'.status = IN_PROGRESS
                          => gameState'.currentTurn = Other(gameState.currentTurn)
                   /\ gameState'.status = IN_PROGRESS
                          \/ gameState'.currentTurn = gameState.currentTurn
                   /\ mover # 0 => last'.player = Other(mover)
              ELSE gameState'.currentTurn = gameState.currentTurn]_vars

\* C9 witness: three successful moves in a row, the last one by player 1 after
\* player 2's, with the turn back at player 2
C9_Witness ==
    /\ made = 3 /\ mover = 1 /\ last.op \in Moves /\ last.result = "ok"
    /\ Len(history) = 3 /\ history[3].gameState.currentTurn = 1
    /\ history[2].gameState.currentTurn = 2
    /\ gameState.status = IN_PROGRESS /\ gameState.currentTurn = 2

\* C10: while the status is IN_PROGRESS, every movePawn and every placeWall of
\* a registered player who does not hold the turn fails with WrongTurn,
\* whatever the target or the wall.
C10_WrongTurn ==
    gameState.status = IN_PROGRESS
        => \A p \in Registered \ {gameState.currentTurn} :
               /\ \A t \in Positions : movePawn(p, t).result = "WrongTurn"
               /\ \A w \in Walls : placeWall(p, w).result = "WrongTurn"

\* C10 witness: a wall that the board would take and that the player could
\* pay for has just been refused with WrongTurn
C10_Witness ==
    /\ last.op = "placeWall" /\ last.result = "WrongTurn"
    /\ last.player \in Registered /\ remainingWalls[last.player] > 0
    /\ gameState.status = IN_PROGRESS
    /\ \E w \in Walls : isValidWallPlacement(walls, w)

\* C11: a successful placeWall takes exactly one wall from the placer's
\* budget, leaves the other budget and every pawn as they were, and appends
\* exactly the given wall at the end of the wall list.
C11_PlaceWallEffect ==
    \A p \in Registered, w \in Walls :
        \A o \in {placeWall(p, w)} :
            o.result = "ok"
                => /\ DOMAIN o.remainingWalls = Registered
                   /\ o.remainingWalls[p] = remainingWalls[p] - 1
                   /\ \A q \in Registered \ {p} :
                          o.remainingWalls[q] = remainingWalls[q]
                   /\ o.pawns = pawns
                   /\ Len(o.walls) = Len(walls) + 1
                   /\ SubSeq(o.walls, 1, Len(walls)) = walls
                   /\ o.walls[Len(o.walls)] = w

\* C11 witness: player 2 has just added a second wall behind player 1's
C11_Witness ==
    /\ last.op = "placeWall" /\ last.result = "ok" /\ last.player = 2
    /\ Len(walls) = 2 /\ SubSeq(walls, 1, 1) = pre.board.walls
    /\ remainingWalls[2] = pre.remainingWalls[2] - 1
    /\ remainingWalls[1] = pre.remainingWalls[1]

\* the walls the registered players have paid for
RECURSIVE Spent(_)
Spent(ps) ==
    IF ps = {} THEN 0
    ELSE LET p == CHOOSE q \in ps : TRUE
         IN  (WallsPerPlayer - remainingWalls[p]) + Spent(ps \ {p})

\* C12: no budget is ever below 0 or above the configured one, the walls on
\* the board are exactly the ones paid for, and a turn holder whose budget is
\* 0 gets NoWallsRemaining for every wall.
C12_WallBudget ==
    /\ \A p \in Registered : remainingWalls[p] \in 0 .. WallsPerPlayer
    /\ Len(walls) = Spent(Registered)
    /\ \A p \in Registered :
           (gameState.status = IN_PROGRESS /\ gameState.currentTurn = p
                /\ remainingWalls[p] = 0)
               => \A w \in Walls : placeWall(p, w).result = "NoWallsRemaining"

\* C12 witness: a player who has used the whole budget has just been refused
C12_Witness ==
    /\ last.op = "placeWall" /\ last.result = "NoWallsRemaining"
    /\ remainingWalls[last.player] = 0
    /\ Len(walls) >= WallsPerPlayer

\* C13: right after a successful movePawn or placeWall, redo() fails with
\* "No moves to redo".
C13_MoveClearsRedo ==
    (last.op \in Moves /\ last.result = "ok")
        => /\ redoStack = <<>>
           /\ \A o \in {redo} :
                  o.result = "NoMovesToRedo" /\ Seen(o) = Observed

\* C13 witness: a move was made while there was something to redo
C13_Witness ==
    /\ last.op \in Moves /\ last.result = "ok"
    /\ preRedo > 0 /\ redoStack = <<>>

\* what a call that ended as o leaves in every field, stacks included
Unchanged(o) ==
    /\ Seen(o) = Observed
    /\ o.history = history
    /\ o.redoStack = redoStack

C15_PathBlockedKeepsHistory ==
    \A p \in Registered, w \in Walls :
        \A o \in {placeWall(p, w)} :
            o.result = "PathBlocked" => o.history = history

\* C16: a placeWall rejected with NoWallsRemaining or by Board.placeWall, and a
\* movePawn rejected by Board.movePawn, leave the undo history with the same
\* length and the same snapshots as before the call.
C16_RejectedKeepsHistory ==
    /\ \A p \in Registered, w \in Walls :
           \A o \in {placeWall(p, w)} :
               o.result \in {"NoWallsRemaining", "InvalidWallPlacement"}
                   => o.history = history
    /\ \A p \in PlayerIds, t \in Positions :
           \A o \in {movePawn(p, t)} :
               o.result \in {"NoPawn", "InvalidMove"} => o.history = history

\* C16 witness: the board has just refused a wall in a game that has an undo
\* history
C16_Witness ==
    /\ last.op = "placeWall" /\ last.result = "InvalidWallPlacement"
    /\ Len(history) >= 2

\* C17: a placeWall rejected with NoWallsRemaining, by Board.placeWall or with
\* PathBlocked leaves the redo stack as it was.
C17_RejectedWallKeepsRedo ==
    \A p \in Registered, w \in Walls :
        \A o \in {placeWall(p, w)} :
            o.result \in {"NoWallsRemaining", "InvalidWallPlacement",
                          "PathBlocked"}
                => o.redoStack = redoStack

\* C18: a rejected movePawn leaves the redo stack and the game as they were,
\* so a redo that was available is still available and restores the same
\* state.
C18_RejectedMoveKeepsRedo ==
    \A p \in PlayerIds, t \in Positions :
        \A o \in {movePawn(p, t)} :
            o.result # "ok"
                => /\ o.result \in {"GameEnded", "WrongTurn", "NoPawn",
                                    "InvalidMove"}
                   /\ o.redoStack = redoStack
                   /\ Seen(o) = Observed

\* C18 witness: the board has just refused a move while there is something to
\* redo
C18_Witness ==
    /\ last.op = "movePawn" /\ last.result = "InvalidMove"
    /\ redoStack # <<>> /\ preRedo = Len(redoStack)

\* C20: no two walls of the same orientation in the wall list share an
\* occupied cell.
C20_NoOverlap ==
    \A i, j \in DOMAIN walls :
        (i < j /\ walls[i].isHorizontal = walls[j].isHorizontal)
            => \A a, b \in 1 .. 2 : occupies(walls[i])[a] # occupies(walls[j])[b]

\* C20 witness: two walls of the same orientation are on the board after a
\* redo has replayed them
C20_Witness ==
    /\ Len(walls) = 2
    /\ walls[1].isHorizontal = walls[2].isHorizontal
    /\ last.op = "redo" /\ last.result = "ok"
    /\ Len(pre.board.walls) = 1

\* C19: with two players registered addPlayer fails with "Game already has
\* maximum number of players" and leaves players and budgets as they were;
\* otherwise it registers the id with the configured budget and leaves the
\* other entries alone, whatever the id; never more than two are registered.
C19_AddPlayer ==
    /\ Cardinality(Registered) <= 2
    /\ \A id \in SetupIds :
           \A o \in {addPlayer(id)} :
               IF Cardinality(Registered) = 2
               THEN o.result = "MaxPlayers" /\ Unchanged(o)
               ELSE /\ o.result = "ok"
                    /\ DOMAIN o.remainingWalls = Registered \cup {id}
                    /\ o.remainingWalls[id] = WallsPerPlayer
                    /\ \A q \in Registered \ {id} :
                           o.remainingWalls[q] = remainingWalls[q]
    /\ (last.op = "addPlayer" /\ last.result # "ok") => Observed = pre

\* C19 witness: player 2 was added before player 1, one of them has spent a
\* wall, and a third id has just been refused
C19_Witness ==
    /\ last.op = "addPlayer" /\ last.result = "MaxPlayers" /\ last.player = 3
    /\ Registered = {1, 2}
    /\ \E p \in Registered : remainingWalls[p] < WallsPerPlayer

\* C28: for a board size N > 0, Position.create(r, c, N) returns the position
\* with row r and col c exactly when 0 <= r < N and 0 <= c < N, and fails with
\* "Invalid position" for every other r, c.
C28_Create ==
    (call.op = "create" /\ call.args[3] > 0)
        => \A r \in {call.args[1]}, c \in {call.args[2]}, N \in {call.args[3]} :
               IF 0 <= r /\ r < N /\ 0 <= c /\ c < N
               THEN /\ call.returned.result = "ok"
                    /\ call.returned.value.row = r
                    /\ call.returned.value.col = c
                    /\ subject = call.returned.value
               ELSE call.returned.result = "InvalidPosition"

\* C28 witness: a row equal to the board size has just been refused
C28_Witness ==
    /\ call.op = "create" /\ call.returned.result = "InvalidPosition"
    /\ call.args[3] > 1 /\ call.args[1] = call.args[3]
    /\ call.args[2] \in 0 .. call.args[3] - 1

\* the cell one step from p in direction d, whether on the board or not
Shift(d, p) ==
    [row |-> p.row + (IF d = "down" THEN 1 ELSE IF d = "up" THEN -1 ELSE 0),
     col |-> p.col + (IF d = "right" THEN 1 ELSE IF d = "left" THEN -1 ELSE 0),
     boardSize |-> p.boardSize]

OnBoard(p) ==
    /\ 0 <= p.row /\ p.row < p.boardSize
    /\ 0 <= p.col /\ p.col < p.boardSize

DirectionNames == {"up", "down", "left", "right"}

\* C29: for an in-bounds position and each direction, has<d>() is true exactly
\* when the cell one step away is on the board; <d>() fails with an edge error
\* exactly when has<d>() is false and otherwise returns that cell, with the
\* same board size.
C29_Neighbours ==
    subject # NoPosition
        => /\ OnBoard(subject)
           /\ \A d \in DirectionNames :
                  /\ hasNeighbour(d, subject) <=> OnBoard(Shift(d, subject))
                  /\ \A o \in {step(d, subject)} :
                         IF hasNeighbour(d, subject)
                         THEN o.result = "ok" /\ o.value = Shift(d, subject)
                         ELSE o.result = "EdgeError"
           /\ call.op = "step"
                  => IF OnBoard(Shift(call.args[1], call.args[2]))
                     THEN /\ call.returned.result = "ok"
                          /\ subject = Shift(call.args[1], call.args[2])
                     ELSE /\ call.returned.result = "EdgeError"
                          /\ subject = call.args[2]

\* C29 witness: down() has just failed on the bottom row of a board with more
\* than one row
C29_Witness ==
    /\ call.op = "step" /\ call.args[1] = "down"
    /\ call.returned.result = "EdgeError"
    /\ subject.boardSize > 1 /\ subject.row = subject.boardSize - 1

\* C30: Wall.occupies() returns exactly two cells, the anchor and then the
\* cell to its right (horizontal) or below it (vertical); it fails with an
\* edge error exactly when a horizontal wall is anchored in the rightmost
\* column or a vertical wall in the bottom row.
C30_Occupies ==
    subject # NoPosition
        => \A h \in BOOLEAN :
               \A w \in {[position |-> subject, isHorizontal |-> h]} :
                   \A o \in {wallOccupies(w)} :
                       IF \/ h /\ subject.col = subject.boardSize - 1
                          \/ ~h /\ subject.row = subject.boardSize - 1
                       THEN o.result = "EdgeError"
                       ELSE /\ o.result = "ok"
                            /\ Len(o.value) = 2
                            /\ o.value[1] = subject
                            /\ o.value[2] = Shift(IF h THEN "right" ELSE "down",
                                                  subject)
                            /\ o.value = occupies(w)

\* C30 witness: occupies() has just failed for a vertical wall anchored in the
\* bottom row but not in the rightmost column
C30_Witness ==
    /\ call.op = "occupies" /\ call.returned.result = "EdgeError"
    /\ ~call.args[1].isHorizontal
    /\ subject.row = subject.boardSize - 1
    /\ subject.col < subject.boardSize - 1


\* ------------------------------------------------------------ Board claims
\* the wall w, of the orientation opposite to v's, is anchored on the second
\* cell that v occupies
Crosses(w, v) ==
    /\ w.isHorizontal # v.isHorizontal
    /\ w.position.row = v.position.row + (IF v.isHorizontal THEN 0 ELSE 1)
    /\ w.position.col = v.position.col + (IF v.isHorizontal THEN 1 ELSE 0)

\* C21: Board.placeWall of a wall anchored on the second occupied cell of a
\* wall of the opposite orientation that is already on the board fails with
\* "Invalid wall placement" and leaves the wall list as it was.
C21_CrossingRejected ==
    /\ \A wall \in Walls :
           (\E i \in DOMAIN walls : Crosses(wall, walls[i]))
               => \A o \in {boardPlaceWall(walls, wall)} :
                      ~o.ok /\ o.walls = walls
    /\ (/\ call.op = "placeWall"
        /\ \E i \in DOMAIN pre.board.walls :
               Crosses(call.args[1], pre.board.walls[i]))
           => /\ call.returned = Threw("InvalidWallPlacement")
              /\ walls = pre.board.walls

C21_Witness ==
    /\ call.op = "placeWall"
    /\ call.args = <<Wall(0, 1, FALSE)>>
    /\ pre.board.walls = <<Wall(0, 0, TRUE)>>
    /\ call.returned = Threw("InvalidWallPlacement")
    /\ walls = <<Wall(0, 0, TRUE)>>

\* C22: no two walls of opposite orientations on the board are such that one
\* is anchored on the second occupied cell of the other, whichever of the two
\* was placed first.
C22_NoContradictoryPair ==
    \A i \in DOMAIN walls, j \in DOMAIN walls : ~Crosses(walls[i], walls[j])

\* C23: Board.placeWall of a horizontal wall anchored in the last column, or
\* of a vertical wall anchored in the last row, fails with "Invalid wall
\* placement", not with an edge error, and leaves the wall list as it was; so
\* both cells of every wall on the board are on the board.
OverEdge(wall) ==
    IF wall.isHorizontal THEN wall.position.col = BoardSize - 1
    ELSE wall.position.row = BoardSize - 1

C23_EdgeWallRejected ==
    /\ \A wall \in Walls :
           OverEdge(wall)
               => /\ ~isValidWallPlacementThrows(wall)
                  /\ \A o \in {boardPlaceWall(walls, wall)} :
                         ~o.ok /\ o.walls = walls
    /\ (call.op = "placeWall" /\ OverEdge(call.args[1]))
           => /\ call.returned = Threw("InvalidWallPlacement")
              /\ walls = pre.board.walls
    /\ \A i \in DOMAIN walls :
           /\ OnBoard(walls[i].position)
           /\ OnBoard(Shift(IF walls[i].isHorizontal THEN "right" ELSE "down",
                            walls[i].position))

C23_Witness ==
    /\ call.op = "placeWall"
    /\ call.args = <<Wall(0, BoardSize - 1, TRUE)>>
    /\ call.returned = Threw("InvalidWallPlacement")
    /\ Len(walls) = 1
    /\ walls = pre.board.walls

\* no pawn of pw other than playerId's stands on p
FreeOfOthers(pw, playerId, p) ==
    \A other \in DOMAIN pw : other # playerId => pw[other] # p

\* a simple move: an orthogonal neighbour, not held by the other pawn, with no
\* wall on the boundary crossed
LegalSimple(pw, ws, playerId, target) ==
    /\ Open(ws, pw[playerId], target)
    /\ FreeOfOthers(pw, playerId, target)

\* a straight jump: the other pawn on the neighbour in some direction, the
\* target the next cell in that direction and free, and no wall on either of
\* the two boundaries crossed
LegalJump(pw, ws, playerId, target) ==
    \E d \in DirectionNames :
        \E over \in {Shift(d, pw[playerId])} :
            /\ OnBoard(over)
            /\ \E other \in DOMAIN pw : other # playerId /\ pw[other] = over
            /\ target = Shift(d, over)
            /\ \A other \in DOMAIN pw : pw[other] # target
            /\ Open(ws, pw[playerId], over)
            /\ Open(ws, over, target)

Diagonal(p, q) == p.row # q.row /\ p.col # q.col

\* C24: a Board.movePawn that succeeds moved the pawn by a simple move or by a
\* straight jump; a diagonal target is never accepted, and a jump over the
\* other pawn with a wall on either boundary fails with "Invalid move".
C24_MoveSound ==
    /\ \A playerId \in DOMAIN pawns, target \in Positions :
           \A o \in {boardMovePawn(pawns, walls, playerId, target)} :
               /\ o.result \in {"ok", "InvalidMove"}
               /\ o.result = "ok"
                      => /\ \/ LegalSimple(pawns, walls, playerId, target)
                            \/ LegalJump(pawns, walls, playerId, target)
                         /\ ~Diagonal(pawns[playerId], target)
                         /\ o.pawns = [pawns EXCEPT ![playerId] = target]
               /\ o.result # "ok" => o.pawns = pawns
    /\ (call.op = "movePawn" /\ call.returned = Returned(TRUE))
           => /\ \/ LegalSimple(pre.board.pawns, walls,
                                call.args[1], call.args[2])
                 \/ LegalJump(pre.board.pawns, walls,
                              call.args[1], call.args[2])
              /\ pawns = [pre.board.pawns EXCEPT ![call.args[1]] = call.args[2]]

\* a jump over the other pawn is refused because of a wall behind it
C24_BlockedJumpSeen ==
    /\ call.op = "movePawn"
    /\ call.args = <<1, Pos(2, 1)>>
    /\ call.returned = Threw("InvalidMove")
    /\ pawns = <<Pos(0, 1), Pos(1, 1)>>
    /\ walls = <<Wall(1, 0, TRUE)>>

\* a jump is accepted with a wall on the board
C24_Witness ==
    /\ call.op = "movePawn"
    /\ call.args = <<1, Pos(1, 2)>>
    /\ call.returned = Returned(TRUE)
    /\ pre.board.pawns = <<Pos(1, 0), Pos(1, 1)>>
    /\ pawns = <<Pos(1, 2), Pos(1, 1)>>
    /\ Len(walls) = 1

\* C25: Board.movePawn succeeds, and moves the pawn to the target, for every
\* target that is a simple move or a straight jump, wherever the pawns stand.
C25_MoveComplete ==
    (/\ call.op = "movePawn"
     /\ call.args[1] \in DOMAIN pre.board.pawns
     /\ \/ LegalSimple(pre.board.pawns, walls, call.args[1], call.args[2])
        \/ LegalJump(pre.board.pawns, walls, call.args[1], call.args[2]))
        => /\ call.returned = Returned(TRUE)
           /\ pawns = [pre.board.pawns EXCEPT ![call.args[1]] = call.args[2]]

\* C26: for orthogonally adjacent cells, Board.isWallBetween is true exactly
\* when a horizontal wall anchored on the lesser row spans their column (same
\* column), or a vertical wall standing at the right-hand cell's column spans
\* their row (same row); the order of the two cells does not matter.
C26_WallBetweenAdjacent ==
    /\ \A p \in Positions, q \in Positions :
           Orthogonal(p, q)
               => /\ isWallBetween(walls, p, q)
                         <=> \E i \in DOMAIN walls : Closes(walls[i], p, q)
                  /\ isWallBetween(walls, p, q) <=> isWallBetween(walls, q, p)
    /\ (call.op = "isWallBetween" /\ Orthogonal(call.args[1], call.args[2]))
           => call.returned
                  = Returned(\E i \in DOMAIN walls :
                                 Closes(walls[i], call.args[1], call.args[2]))

C26_Witness ==
    /\ call.op = "isWallBetween"
    /\ call.args = <<Pos(1, 1), Pos(0, 1)>>
    /\ call.returned = Returned(TRUE)
    /\ walls = <<Wall(0, 0, TRUE)>>

\* C27: Board.isWallBetween is false for every two cells that are not
\* orthogonally adjacent, whatever walls are on the board.
C27_WallBetweenApart ==
    (call.op = "isWallBetween" /\ ~Orthogonal(call.args[1], call.args[2]))
        => call.returned = Returned(FALSE)

\* ------------------------------------------------------- claims C31 to C40
\* the wall breaks a placement rule against the walls ws: it reaches over the
\* edge, shares a cell with a wall of its orientation, or is anchored on the
\* second cell of a wall of the other orientation
Refused(ws, wall) ==
    \/ OverEdge(wall)
    \/ \E i \in DOMAIN ws :
           \/ /\ ws[i].isHorizontal = wall.isHorizontal
              /\ \E a, b \in 1 .. 2 : occupies(ws[i])[a] = occupies(wall)[b]
           \/ Crosses(wall, ws[i])

\* the first check of Game.placeWall that fails, in the order of the claim
FirstWallFailure(playerId, wall) ==
    IF playerId \notin Registered THEN "NotInGame"
    ELSE IF gameState.status # IN_PROGRESS THEN "GameEnded"
    ELSE IF gameState.currentTurn # playerId THEN "WrongTurn"
    ELSE IF remainingWalls[playerId] <= 0 THEN "NoWallsRemaining"
    ELSE IF Refused(walls, wall) THEN "InvalidWallPlacement"
    ELSE IF \E p \in Registered : ~HasFreePath(pawns, Append(walls, wall), p)
         THEN "PathBlocked"
    ELSE "ok"

RECURSIVE ReachBetween(_, _, _)
ReachBetween(ws, seen, frontier) ==
    IF frontier = {} THEN seen
    ELSE LET more == {q \in UNION {Around(p) : p \in frontier} :
                         /\ q \notin seen
                         /\ \E p \in frontier :
                                Orthogonal(p, q) /\ ~isWallBetween(ws, p, q)}
         IN  ReachBetween(ws, seen \cup more, more)

\* the wall lists the path check is run on in this state: the walls of the
\* board with any one wall that Board.placeWall accepts added
Tried == {Append(walls, wall) : wall \in {w \in Walls : ~Refused(walls, w)}}

\* C32: the path check of a player is true exactly when a cell of its goal row
\* can be reached from its pawn by orthogonal steps over boundaries for which
\* isWallBetween is false, the other pawn's cell included; it is false for a
\* player without a pawn.
C32_SearchExact ==
    \A ws \in {walls} \cup Tried, p \in Registered :
        hasPathToGoal(pawns, ws, p)
            <=> /\ p \in DOMAIN pawns
                /\ \E q \in ReachBetween(ws, {pawns[p]}, {pawns[p]}) :
                       q.row = GoalRow(p)

\* a wall has just been refused because the search found no path
\* for a player that has a pawn, in a game where another registered player
\* has none
C32_BlockedSeen ==
    /\ last.op = "placeWall" /\ last.result = "PathBlocked"
    /\ \E p \in Registered : p \notin DOMAIN pawns
    /\ \E p \in Registered : p \in DOMAIN pawns
    /\ Len(walls) >= 1

\* C32 witness: the search answers true for a player whose only open way to the goal row
\* leads over the other pawn's cell
C32_Witness ==
    \E p \in Registered :
        /\ p \in DOMAIN pawns
        /\ hasPathToGoal(pawns, walls, p)
        /\ \A others \in {{pawns[o] : o \in DOMAIN pawns \ {p}}} :
               \A q \in ReachBetween(walls, {pawns[p]} \cup others,
                                     {pawns[p]}) \ others :
                   q.row # GoalRow(p)

\* C33: if every registered player has a path to its goal row, it still has
\* one after any successful Game.movePawn, simple move or jump.
C33_MoveKeepsPaths ==
    /\ (\A p \in Registered : HasFreePath(pawns, walls, p))
           => \A playerId \in PlayerIds, target \in Positions :
                  \A o \in {movePawn(playerId, target)} :
                      o.result = "ok"
                          => \A p \in Registered :
                                 HasFreePath(o.pawns, o.walls, p)
    /\ (/\ last.op = "movePawn" /\ last.result = "ok"
        /\ \A p \in Registered :
               HasFreePath(pre.board.pawns, pre.board.walls, p))
           => \A p \in Registered : HasFreePath(pawns, walls, p)

\* a pawn has just made a step on a board with two walls on it
C33_StepAmongWallsSeen ==
    /\ last.op = "movePawn" /\ last.result = "ok"
    /\ Len(walls) = 2

\* C33 witness: a pawn has just jumped over the other one
C33_Witness ==
    /\ last.op = "movePawn" /\ last.result = "ok"
    /\ \E p \in DOMAIN pawns :
           /\ p = last.player
           /\ pawns[p].row - pre.board.pawns[p].row \in {2, -2}

\* the wall shares a cell with a wall of ws of its own orientation
Overlaps(ws, wall) ==
    \E i \in DOMAIN ws :
        /\ ws[i].isHorizontal = wall.isHorizontal
        /\ \E a, b \in 1 .. 2 : occupies(ws[i])[a] = occupies(wall)[b]

\* C34: a new wall whose second occupied cell is the anchor of a wall of the
\* other orientation already on the board, and which breaks no other rule, is
\* accepted by Board.placeWall, while the same two walls in the other order
\* are refused.
C34_CrossingAsymmetric ==
    /\ \A wall \in Walls, i \in DOMAIN walls :
           (/\ Crosses(walls[i], wall)
            /\ ~OverEdge(wall)
            /\ ~Overlaps(walls, wall)
            /\ \A j \in DOMAIN walls : ~Crosses(wall, walls[j]))
               => /\ boardPlaceWall(walls, wall)
                         = [ok |-> TRUE, walls |-> Append(walls, wall)]
                  /\ ~boardPlaceWall(<<wall>>, walls[i]).ok
    /\ (/\ call.op = "placeWall"
        /\ ~OverEdge(call.args[1])
        /\ ~Overlaps(pre.board.walls, call.args[1])
        /\ \E i \in DOMAIN pre.board.walls :
               Crosses(pre.board.walls[i], call.args[1])
        /\ \A j \in DOMAIN pre.board.walls :
               ~Crosses(call.args[1], pre.board.walls[j]))
           => /\ call.returned = Returned(TRUE)
              /\ walls = Append(pre.board.walls, call.args[1])

\* C34 witness: the horizontal wall (0,0) has just been accepted on a board
\* that held the vertical wall (0,1)
C34_Witness ==
    /\ call.op = "placeWall"
    /\ call.args = <<Wall(0, 0, TRUE)>>
    /\ call.returned = Returned(TRUE)
    /\ pre.board.walls = <<Wall(0, 1, FALSE)>>
    /\ walls = <<Wall(0, 1, FALSE), Wall(0, 0, TRUE)>>

\* what the game shows right after set-up
InitialState ==
    [board |-> [pawns |-> StartPawns(Registered), walls |-> <<>>],
     gameState |-> [currentTurn |-> 1, status |-> IN_PROGRESS],
     remainingWalls |-> [p \in Registered |-> WallsPerPlayer]]

\* how many undo() calls in a row succeed on the history h
RECURSIVE UndosThatSucceed(_)
UndosThatSucceed(h) ==
    IF h = <<>> THEN 0
    ELSE IF restoreState(h[Len(h)]).ok THEN 1 + UndosThatSucceed(pop(h))
    ELSE 0

\* C35: after any run of accepted and refused movePawn and placeWall calls
\* with no undo or redo, exactly as many undo() calls in a row succeed as
\* calls were accepted, and the last of them restores the initial state.
C35_UndoDepth ==
    /\ UndosThatSucceed(history) = made
    /\ made > 0 => Seen(restoreState(history[1])) = InitialState

\* C36: when the status is PLAYER_1_WON, player 1's pawn is on the last row
\* and the turn is 1; when it is PLAYER_2_WON, player 2's pawn is on row 0 and
\* the turn is 2; also after undo and redo.
C36_WinConsistent ==
    /\ gameState.status \in {IN_PROGRESS, PLAYER_1_WON, PLAYER_2_WON}
    /\ gameState.status = PLAYER_1_WON
           => /\ 1 \in DOMAIN pawns /\ pawns[1].row = BoardSize - 1
              /\ gameState.currentTurn = 1
    /\ gameState.status = PLAYER_2_WON
           => /\ 2 \in DOMAIN pawns /\ pawns[2].row = 0
              /\ gameState.currentTurn = 2

\* C36 witness: player 2's win has just been brought back by redo
C36_Witness ==
    /\ last.op = "redo" /\ last.result = "ok"
    /\ gameState.status = PLAYER_2_WON
    /\ pre.gameState.status = IN_PROGRESS

\* the walls the players of ps have left between them, according to rw
RECURSIVE Left(_, _)
Left(rw, ps) ==
    IF ps = {} THEN 0
    ELSE LET p == CHOOSE q \in ps : TRUE
         IN  rw[p] + Left(rw, ps \ {p})

\* the walls on the board and the walls left add up to what was handed out
Conserved(ws, rw) ==
    Len(ws) + Left(rw, DOMAIN rw) = Cardinality(DOMAIN rw) * WallsPerPlayer

\* C37: in every reachable state the number of walls on the board is the sum
\* over the players of the configured budget minus the walls remaining, and
\* every call, accepted or refused, keeps it so.
C37_WallsConserved ==
    /\ Conserved(walls, remainingWalls)
    /\ \A playerId \in PlayerIds, wall \in Walls :
           \A o \in {placeWall(playerId, wall)} :
               Conserved(o.walls, o.remainingWalls)
    /\ \A o \in {undo, redo} : Conserved(o.walls, o.remainingWalls)

\* C37 witness: undo has just taken the second wall off the board
C37_Witness ==
    /\ last.op = "undo" /\ last.result = "ok"
    /\ Len(pre.board.walls) = 2
    /\ Len(walls) = 1
    /\ Left(remainingWalls, Registered) = 1

InsideBoard(p) == p.row \in 0 .. BoardSize - 1 /\ p.col \in 0 .. BoardSize - 1

\* C38: the pawns are on distinct cells inside the board in every reachable
\* state.
C38_PawnsApart ==
    /\ \A p \in DOMAIN pawns, q \in DOMAIN pawns :
           p # q => ~equals(pawns[p], pawns[q])
    /\ \A p \in DOMAIN pawns : InsideBoard(pawns[p])

\* C39: the Board the visualizer renders is the Board the Game owns, and the
\* grid printed after a command that did not fail, undo and redo included,
\* shows the Game's pawns and walls.
C39_DrawsLiveBoard ==
    /\ visualizer.owned
    /\ visualizer.held = [pawns |-> pawns, walls |-> walls]
    /\ last.result = "ok"
           => visualizer.printed = [pawns |-> pawns, walls |-> walls]

\* the boundaries between two cells of the board that the wall w closes,
\* according to Board.isWallBetween with the walls ws on the board
Blocked(ws, w) ==
    {pair \in Positions \X Positions :
         /\ Orthogonal(pair[1], pair[2])
         /\ IF w.isHorizontal THEN pair[1].row = w.position.row
                                   /\ pair[2].row = w.position.row + 1
                                   /\ pair[1].col \in {w.position.col,
                                                       w.position.col + 1}
            ELSE pair[1].col = w.position.col - 1
                 /\ pair[2].col = w.position.col
                 /\ pair[1].row \in {w.position.row, w.position.row + 1}
         /\ isWallBetween(ws, pair[1], pair[2])}

\* C40: every wall on the board, accepted by Board.placeWall and paid for,
\* closes the two boundaries it lies on; no wall is accepted that closes none
\* (a horizontal wall anchored in the last row, a vertical wall anchored in
\* column 0).
C40_WallsBlock ==
    \A i \in DOMAIN walls :
        /\ Cardinality(Blocked(walls, walls[i])) = 2
        /\ IF walls[i].isHorizontal
           THEN walls[i].position.row < BoardSize - 1
           ELSE walls[i].position.col > 0
====
